---- MODULE Spec2Model ----
(***************************************************************************)
(* The real-time hub of the chat service: backend/src/websocket/           *)
(* websocket.ts (class WebSocketManager) together with the store it calls  *)
(* (models User, Chat, Message) and the REST mark-as-read route.           *)
(*                                                                         *)
(* Node.js runs every handler on one thread: the code between two awaits   *)
(* is one atomic step.  Every await is a point where other handlers run;   *)
(* a handler waiting on the store is a record in `tasks` (or a stage of    *)
(* its connection) and resumes in a later step, in any order.              *)
(***************************************************************************)
EXTENDS Integers, Sequences, FiniteSets, Bags, TLC

\* ------------------------------------------------------------------ bounds
MaxConns   == 2      \* connections accepted over a run
MaxPending == 2      \* handlers waiting on the store at one time
MaxTimers  == 2      \* typing expiries scheduled and not yet fired
MaxMsgs    == 1      \* messages created over a run
MaxTicks   == 2      \* steps of the clock
MaxSockets == 2      \* client: WebSocket objects alive at one time

\* -------------------------------------------------------- program constants
CloseNoToken  == 4001
CloseBadToken == 4002
CloseInternal == 4003
TypingTimeout == 3000
maxReconnectAttempts == 5

\* ------------------------------------------------------------ the store
Users == {"u1", "u2", "u3"}
Rooms == {"r1", "r2"}
RoomSeq == <<"r1", "r2">>
\* Chat.participants, an array, per chat
Participants == [r \in Rooms |->
                   IF r = "r1" THEN <<"u1", "u2", "u3">> ELSE <<"u1", "u3">>]

RECURSIVE SeqToSet(_)
SeqToSet(s) == IF s = <<>> THEN {} ELSE {Head(s)} \cup SeqToSet(Tail(s))

IsParticipant(u, r) == u \in SeqToSet(Participants[r])

Conns  == 1..MaxConns
NoConn == 0
NoUser == "nobody"
NoRoom == "noroom"
\* what the upgrade request carries: a token of a user, no token, a token
\* that fails jwt.verify, a valid token of a user that does not exist
Tokens == Users \cup {"none", "bad", "ghost"}
MsgIds == 1..(MaxMsgs + 1)
NoMsg  == 0
\* the clock moves in steps of half a typing timeout
ClockStep == TypingTimeout \div 2
Horizon   == MaxTicks * ClockStep

VARIABLES
  conns,            \* the sockets of wss.clients and the stage of their setup
  connectedUsers,   \* WebSocketManager.connectedUsers : userId -> socket
  isOnline,         \* User.isOnline in the store
  typingUsers,      \* WebSocketManager.typingUsers : set of claims
  timers,           \* the setTimeout callbacks of handleTypingStart not yet run
  now,              \* Date.now(), in ms
  messages,         \* the Message collection of the store
  lastMessage,      \* Chat.lastMessage in the store
  nextId,           \* message ids handed out so far
  tasks,            \* handlers suspended at an await on the store
  delivered,        \* the frames ws.send() wrote during the last step
  last,             \* the last step taken
  socks,            \* client: the WebSocket objects that still raise events
  service,          \* client: the fields of the WebSocketService singleton
  provider,         \* client: the refs of WebSocketProvider and the auth state
  audit,            \* client: what has been observed since the last open
  hook              \* client: the state of useChat

vars == <<conns, connectedUsers, isOnline, typingUsers, timers, now, messages,
          lastMessage, nextId, tasks, delivered, last,
          socks, service, provider, audit, hook>>
typingVars == <<typingUsers, timers, now>>
storeVars  == <<messages, lastMessage, nextId>>
hubVars    == <<conns, connectedUsers, isOnline, typingVars, storeVars, tasks>>
clientVars == <<socks, service, provider, audit, hook>>

\* the client before the application has logged in or opened a chat
ClientInit ==
  /\ socks = EmptyBag
  /\ service = [reconnectAttempts |-> 0, isManualClose |-> FALSE, timers |-> 0]
  /\ provider = [connectionRef |-> FALSE, reconnectAttempts |-> 0, timers |-> 0,
                 isAuthenticated |-> FALSE]
  /\ audit = [tries |-> 0, lost |-> FALSE, stopped |-> FALSE]
  /\ hook = [currentChat |-> "noroom", messages |-> <<>>, hasMore |-> TRUE,
             sending |-> EmptyBag, loading |-> {}, pushed |-> {}]

FreeConn == [st |-> "free", user |-> NoUser, sock |-> "none", alive |-> "undef",
             pinged |-> FALSE, term |-> FALSE, disc |-> "none", code |-> 0]

Op(op, c) == [op |-> op, c |-> c, user |-> NoUser, room |-> NoRoom, msg |-> NoMsg]
OpT(op, t) == [op |-> op, c |-> t.c, user |-> t.user, room |-> t.room, msg |-> t.msg]
NoMessage == [saved |-> FALSE, chat |-> NoRoom, sender |-> NoUser, readBy |-> <<>>]

\* ------------------------------------------------------------ fanout engine
Frame(to, type, user, room) == [to |-> to, type |-> type, user |-> user, room |-> room]

\* (mutant) the frame is written whatever the readyState
SendToClientAlways(c, type, user, room) == <<Frame(c, type, user, room)>>

\* sendToClient: writes the frame iff the socket is OPEN
SendToClient(c, type, user, room) ==
  IF conns[c].sock = "open" THEN <<Frame(c, type, user, room)>> ELSE <<>>

\* (mutant) the loop ends at the first socket that is not OPEN
RECURSIVE SendEachAbortsOnFailure(_, _, _, _)
SendEachAbortsOnFailure(targets, type, user, room) ==
  IF targets = <<>> THEN <<>>
  ELSE LET p == Head(targets)
           rest == SendEachAbortsOnFailure(Tail(targets), type, user, room)
       IN IF connectedUsers[p] # NoConn
          THEN IF conns[connectedUsers[p]].sock = "open"
               THEN SendToClient(connectedUsers[p], type, user, room) \o rest
               ELSE <<>>
          ELSE rest

RECURSIVE SendEach(_, _, _, _)
SendEach(targets, type, user, room) ==
  IF targets = <<>> THEN <<>>
  ELSE LET p == Head(targets)
           rest == SendEach(Tail(targets), type, user, room)
       IN IF connectedUsers[p] # NoConn
          THEN SendToClient(connectedUsers[p], type, user, room) \o rest
          ELSE rest

RECURSIVE Without(_, _)
Without(s, x) ==
  IF s = <<>> THEN <<>>
  ELSE IF Head(s) = x THEN Without(Tail(s), x) ELSE <<Head(s)>> \o Without(Tail(s), x)

\* broadcastToChat, after Chat.findById resolved
BroadcastToChat(chatId, type, user, excludeUserId) ==
  SendEach(Without(Participants[chatId], excludeUserId), type, user, chatId)

\* Chat.find({participants: userId}): the user's chats, their participants in turn
RECURSIVE ChatsOf(_, _)
ChatsOf(userId, rooms) ==
  IF rooms = <<>> THEN <<>>
  ELSE IF IsParticipant(userId, Head(rooms))
       THEN Participants[Head(rooms)] \o ChatsOf(userId, Tail(rooms))
       ELSE ChatsOf(userId, Tail(rooms))

\* (mutant) no notifiedUsers check: one frame per shared chat
RECURSIVE NotifyNoDedup(_, _, _)
NotifyNoDedup(parts, userId, notifiedUsers) ==
  IF parts = <<>> THEN <<>>
  ELSE LET p == Head(parts)
       IN IF p = userId
          THEN NotifyNoDedup(Tail(parts), userId, notifiedUsers)
          ELSE <<p>> \o NotifyNoDedup(Tail(parts), userId, notifiedUsers \cup {p})

\* the two nested forEach loops of broadcastToUserChats with their notifiedUsers set
RECURSIVE Notify(_, _, _)
Notify(parts, userId, notifiedUsers) ==
  IF parts = <<>> THEN <<>>
  ELSE LET p == Head(parts)
       IN IF p = userId \/ p \in notifiedUsers
          THEN Notify(Tail(parts), userId, notifiedUsers)
          ELSE <<p>> \o Notify(Tail(parts), userId, notifiedUsers \cup {p})

BroadcastToUserChats(userId, type) ==
  SendEach(Notify(ChatsOf(userId, RoomSeq), userId, {}), type, userId, NoRoom)

\* a handler suspended at an await
Task(kind, c, user, room, type, excl, msg) ==
  [kind |-> kind, c |-> c, user |-> user, room |-> room, type |-> type,
   excl |-> excl, msg |-> msg, seen |-> FALSE]
UserChatsTask(c, user, type) == Task("userChats", c, user, NoRoom, type, NoUser, NoMsg)
ChatTask(user, room, type, excl) == Task("chat", NoConn, user, room, type, excl, NoMsg)

\* the store answers in any order: the suspended handlers form a bag
Pending == BagCardinality(tasks)
Suspend(t) == tasks (+) SetToBag({t})
Resume(t) == tasks (-) SetToBag({t})

\* ------------------------------------------------------------ construction
HubInit ==
  /\ conns = [c \in Conns |-> FreeConn]
  /\ connectedUsers = [u \in Users |-> NoConn]
  /\ isOnline = [u \in Users |-> FALSE]
  /\ typingUsers = {}
  /\ timers = EmptyBag
  /\ now = 0
  /\ messages = [m \in MsgIds |-> NoMessage]
  /\ lastMessage = [r \in Rooms |-> NoMsg]
  /\ nextId = 0
  /\ tasks = EmptyBag
  /\ delivered = <<>>
  /\ last = Op("init", NoConn)

Init == HubInit /\ ClientInit

\* ------------------------------------------------------- session: connect
\* wss.on('connection'), up to the first await (or to the refusal)
NewConnection(c, tok) ==
  /\ conns[c].st = "free"
  /\ \A d \in Conns : d < c => conns[d].st # "free"
  /\ conns' = [conns EXCEPT ![c] =
       CASE tok = "none" -> [FreeConn EXCEPT !.st = "refused", !.sock = "closing",
                                             !.code = CloseNoToken]
         [] tok = "bad"  -> [FreeConn EXCEPT !.st = "refused", !.sock = "closing",
                                             !.code = CloseInternal]
         [] OTHER        -> [FreeConn EXCEPT !.st = "lookup", !.sock = "open",
                                             !.user = tok]]
  /\ delivered' = <<>>
  /\ last' = Op("connection", c)
  /\ UNCHANGED clientVars
  /\ UNCHANGED <<connectedUsers, isOnline, typingVars, storeVars, tasks>>

\* (mutant) an entry already in the registry is kept
LookupDoneKeepsFirst(c) ==
  /\ conns[c].st = "lookup"
  /\ IF conns[c].user \in Users
     THEN /\ conns' = [conns EXCEPT ![c].st = "saving", ![c].alive = "yes"]
          /\ connectedUsers' = [connectedUsers EXCEPT ![conns[c].user] =
                                  IF @ = NoConn THEN c ELSE @]
     ELSE /\ conns' = [conns EXCEPT ![c].st = "refused", ![c].code = CloseBadToken,
                         ![c].sock = IF @ = "open" THEN "closing" ELSE @]
          /\ UNCHANGED connectedUsers
  /\ delivered' = <<>>
  /\ last' = Op("lookupDone", c)
  /\ UNCHANGED clientVars
  /\ UNCHANGED <<isOnline, typingVars, storeVars, tasks>>

\* (mutant) the result of User.findById is not looked at
LookupDoneNoUserCheck(c) ==
  /\ conns[c].st = "lookup"
  /\ conns' = [conns EXCEPT ![c].st = "saving", ![c].alive = "yes"]
  /\ connectedUsers' = [u \in Users |-> IF u = conns[c].user THEN c ELSE connectedUsers[u]]
  /\ delivered' = <<>>
  /\ last' = Op("lookupDone", c)
  /\ UNCHANGED clientVars
  /\ UNCHANGED <<isOnline, typingVars, storeVars, tasks>>

\* User.findById resolved: refusal, or lines 51-62 up to `await user.save()`
LookupDone(c) ==
  /\ conns[c].st = "lookup"
  /\ IF conns[c].user \in Users
     THEN /\ conns' = [conns EXCEPT ![c].st = "saving", ![c].alive = "yes"]
          /\ connectedUsers' = [connectedUsers EXCEPT ![conns[c].user] = c]
     ELSE /\ conns' = [conns EXCEPT ![c].st = "refused", ![c].code = CloseBadToken,
                         ![c].sock = IF @ = "open" THEN "closing" ELSE @]
          /\ UNCHANGED connectedUsers
  /\ delivered' = <<>>
  /\ last' = Op("lookupDone", c)
  /\ UNCHANGED clientVars
  /\ UNCHANGED <<isOnline, typingVars, storeVars, tasks>>

\* user.save() resolved: lines 64-104
SaveDone(c) ==
  /\ conns[c].st = "saving"
  /\ Pending < MaxPending
  /\ isOnline' = [isOnline EXCEPT ![conns[c].user] = TRUE]
  /\ tasks' = Suspend(UserChatsTask(c, conns[c].user, "user_online"))
  /\ conns' = [conns EXCEPT ![c].st = "ready"]
  /\ delivered' = SendToClient(c, "connection", conns[c].user, NoRoom)
  /\ last' = Op("saveDone", c)
  /\ UNCHANGED clientVars
  /\ UNCHANGED <<connectedUsers, typingVars, storeVars>>

\* ---------------------------------------------------- session: disconnect
\* the peer closes, or the link drops: readyState leaves OPEN
SocketClose(c) ==
  /\ conns[c].sock = "open"
  /\ conns' = [conns EXCEPT ![c].sock = "closing", ![c].pinged = FALSE]
  /\ delivered' = <<>>
  /\ last' = Op("socketClose", c)
  /\ UNCHANGED clientVars
  /\ UNCHANGED <<connectedUsers, isOnline, typingVars, storeVars, tasks>>

\* (mutant) the registry entry is left in place
HandleDisconnectionKeepsEntry(c) ==
  /\ connectedUsers' = connectedUsers
  /\ typingUsers' = {t \in typingUsers : t.userId # conns[c].user}
  /\ conns' = [conns EXCEPT ![c].sock = "closed", ![c].disc = "updating"]

\* (mutant) the typing map is emptied
HandleDisconnectionClearsAll(c) ==
  /\ connectedUsers' = [connectedUsers EXCEPT ![conns[c].user] = NoConn]
  /\ typingUsers' = {}
  /\ conns' = [conns EXCEPT ![c].sock = "closed", ![c].disc = "updating"]

\* handleDisconnection up to `await User.findByIdAndUpdate`
HandleDisconnection(c) ==
  /\ connectedUsers' = [connectedUsers EXCEPT ![conns[c].user] = NoConn]
  /\ typingUsers' = {t \in typingUsers : t.userId # conns[c].user}
  /\ conns' = [conns EXCEPT ![c].sock = "closed", ![c].disc = "updating"]

\* the socket emits 'close': the listener of lines 82-84 runs if it is installed
CloseEvent(c) ==
  /\ conns[c].sock = "closing"
  /\ IF conns[c].st = "ready"
     THEN HandleDisconnection(c)
     ELSE /\ conns' = [conns EXCEPT ![c].sock = "closed"]
          /\ UNCHANGED <<connectedUsers, typingUsers>>
  /\ delivered' = <<>>
  /\ last' = Op("close", c)
  /\ UNCHANGED clientVars
  /\ UNCHANGED <<isOnline, timers, now, storeVars, tasks>>

\* User.findByIdAndUpdate resolved: lines 378-386
UpdateDone(c) ==
  /\ conns[c].disc = "updating"
  /\ Pending < MaxPending
  /\ isOnline' = [isOnline EXCEPT ![conns[c].user] = FALSE]
  /\ tasks' = Suspend(UserChatsTask(c, conns[c].user, "user_offline"))
  /\ conns' = [conns EXCEPT ![c].disc = "done"]
  /\ delivered' = <<>>
  /\ last' = Op("updateDone", c)
  /\ UNCHANGED clientVars
  /\ UNCHANGED <<connectedUsers, typingVars, storeVars>>

\* ------------------------------------------------------- liveness monitor
Clients == {c \in Conns : conns[c].sock = "open"}

\* one run of the setInterval callback over wss.clients
HeartbeatConn(w) ==
  IF w.alive = "no" THEN [w EXCEPT !.sock = "closing", !.term = TRUE, !.pinged = FALSE]
  ELSE [w EXCEPT !.alive = "no", !.pinged = TRUE]

Heartbeat ==
  /\ Clients # {}
  /\ conns' = [c \in Conns |-> IF c \in Clients THEN HeartbeatConn(conns[c]) ELSE conns[c]]
  /\ delivered' = <<>>
  /\ last' = Op("heartbeat", NoConn)
  /\ UNCHANGED clientVars
  /\ UNCHANGED <<connectedUsers, isOnline, typingVars, storeVars, tasks>>

\* the peer answers the outstanding ping; ws.on('pong') exists from line 92 on
Pong(c) ==
  /\ conns[c].sock = "open"
  /\ conns[c].pinged
  /\ conns' = [conns EXCEPT ![c].pinged = FALSE,
                            ![c].alive = IF conns[c].st = "ready" THEN "yes" ELSE @]
  /\ delivered' = <<>>
  /\ last' = Op("pong", c)
  /\ UNCHANGED clientVars
  /\ UNCHANGED <<connectedUsers, isOnline, typingVars, storeVars, tasks>>

\* ----------------------------------------------------------- fanout tasks
\* Chat.find of broadcastToUserChats resolved
UserChatsDone(t) ==
  /\ t.kind = "userChats"
  /\ delivered' = BroadcastToUserChats(t.user, t.type)
  /\ tasks' = Resume(t)
  /\ last' = OpT("userChatsDone", t)
  /\ UNCHANGED clientVars
  /\ UNCHANGED <<conns, connectedUsers, isOnline, typingVars, storeVars>>

\* Chat.findById of broadcastToChat resolved
ChatDone(t) ==
  /\ t.kind = "chat"
  /\ delivered' = BroadcastToChat(t.room, t.type, t.user, t.excl)
  /\ tasks' = Resume(t)
  /\ last' = OpT("chatDone", t)
  /\ UNCHANGED clientVars
  /\ UNCHANGED <<conns, connectedUsers, isOnline, typingVars, storeVars>>

\* ----------------------------------------------------------- typing tracker
HasTyping(u, r) == \E t \in typingUsers : t.userId = u /\ t.chatId = r
TypingOf(u, r) == CHOOSE t \in typingUsers : t.userId = u /\ t.chatId = r
DeleteTyping(u, r) == {t \in typingUsers : ~(t.userId = u /\ t.chatId = r)}
SetTyping(u, r, ts) ==
  DeleteTyping(u, r) \cup {[userId |-> u, chatId |-> r, timestamp |-> ts]}
Timer(u, r, due) == [userId |-> u, chatId |-> r, due |-> due]

\* a frame arrives on c: the 'message' listener is installed and the socket open
Receiving(c) == conns[c].st = "ready" /\ conns[c].sock = "open"

\* (mutant) the claim is set and no expiry is scheduled
TypingStartNoTimer(c, r) ==
  /\ Receiving(c)
  /\ Pending < MaxPending
  /\ BagCardinality(timers) < MaxTimers
  /\ typingUsers' = SetTyping(conns[c].user, r, now)
  /\ tasks' = Suspend(ChatTask(conns[c].user, r, "typing_start", conns[c].user))
  /\ delivered' = <<>>
  /\ last' = [Op("typingStart", c) EXCEPT !.user = conns[c].user, !.room = r]
  /\ UNCHANGED clientVars
  /\ UNCHANGED <<conns, connectedUsers, isOnline, timers, now, storeVars>>

\* (mutant) the fanout of typing_start does not leave the sender out
TypingStartNoExclude(c, r) ==
  /\ Receiving(c)
  /\ Pending < MaxPending
  /\ BagCardinality(timers) < MaxTimers
  /\ typingUsers' = SetTyping(conns[c].user, r, now)
  /\ tasks' = Suspend(ChatTask(conns[c].user, r, "typing_start", NoUser))
  /\ timers' = timers (+) SetToBag({Timer(conns[c].user, r, now + TypingTimeout)})
  /\ delivered' = <<>>
  /\ last' = [Op("typingStart", c) EXCEPT !.user = conns[c].user, !.room = r]
  /\ UNCHANGED clientVars
  /\ UNCHANGED <<conns, connectedUsers, isOnline, now, storeVars>>

\* handleTypingStart: it has no await before its end
TypingStart(c, r) ==
  /\ Receiving(c)
  /\ Pending < MaxPending
  /\ BagCardinality(timers) < MaxTimers
  /\ typingUsers' = SetTyping(conns[c].user, r, now)
  /\ tasks' = Suspend(ChatTask(conns[c].user, r, "typing_start", conns[c].user))
  /\ timers' = timers (+) SetToBag({Timer(conns[c].user, r, now + TypingTimeout)})
  /\ delivered' = <<>>
  /\ last' = [Op("typingStart", c) EXCEPT !.user = conns[c].user, !.room = r]
  /\ UNCHANGED clientVars
  /\ UNCHANGED <<conns, connectedUsers, isOnline, now, storeVars>>

\* the setTimeout callback of lines 287-300
Expire(x) ==
  /\ x.due <= now
  /\ timers' = timers (-) SetToBag({x})
  /\ IF HasTyping(x.userId, x.chatId)
     THEN /\ Pending < MaxPending
          /\ typingUsers' = DeleteTyping(x.userId, x.chatId)
          /\ tasks' = Suspend(ChatTask(x.userId, x.chatId, "typing_stop", x.userId))
     ELSE UNCHANGED <<typingUsers, tasks>>
  /\ delivered' = <<>>
  /\ last' = [Op("expire", NoConn) EXCEPT !.user = x.userId, !.room = x.chatId]
  /\ UNCHANGED clientVars
  /\ UNCHANGED <<conns, connectedUsers, isOnline, now, storeVars>>

\* time passes; a timer runs when it is due
Tick ==
  /\ now + ClockStep <= Horizon
  /\ \A x \in BagToSet(timers) : x.due > now
  /\ now' = now + ClockStep
  /\ delivered' = <<>>
  /\ last' = Op("tick", NoConn)
  /\ UNCHANGED clientVars
  /\ UNCHANGED <<conns, connectedUsers, isOnline, typingUsers, timers, storeVars, tasks>>

\* handleTypingStop
TypingStop(c, r) ==
  /\ Receiving(c)
  /\ Pending < MaxPending
  /\ typingUsers' = DeleteTyping(conns[c].user, r)
  /\ tasks' = Suspend(ChatTask(conns[c].user, r, "typing_stop", conns[c].user))
  /\ delivered' = <<>>
  /\ last' = [Op("typingStop", c) EXCEPT !.user = conns[c].user, !.room = r]
  /\ UNCHANGED clientVars
  /\ UNCHANGED <<conns, connectedUsers, isOnline, timers, now, storeVars>>

\* ------------------------------------------------------------- send_message
\* handleSendMessage up to `await Chat.findOne`
SendMessage(c, r) ==
  /\ Receiving(c)
  /\ Pending < MaxPending
  /\ tasks' = Suspend(Task("sendFind", c, conns[c].user, r, "send_message", NoUser, NoMsg))
  /\ delivered' = <<>>
  /\ last' = [Op("sendMessage", c) EXCEPT !.user = conns[c].user, !.room = r]
  /\ UNCHANGED clientVars
  /\ UNCHANGED <<conns, connectedUsers, isOnline, typingVars, storeVars>>

\* (mutant) the membership of the sender is not looked at
SendFindDoneNoCheck(t) ==
  /\ t.kind = "sendFind"
  /\ nextId < MaxMsgs
  /\ nextId' = nextId + 1
  /\ tasks' = Resume(t) (+) SetToBag({[t EXCEPT !.kind = "msgSave", !.msg = nextId + 1]})
  /\ delivered' = <<>>
  /\ last' = OpT("sendFindDone", t)
  /\ UNCHANGED clientVars
  /\ UNCHANGED <<conns, connectedUsers, isOnline, typingVars, messages, lastMessage>>

\* Chat.findOne resolved: lines 203-222, up to `await newMessage.save()`
SendFindDone(t) ==
  /\ t.kind = "sendFind"
  /\ IF IsParticipant(t.user, t.room)
     THEN /\ nextId < MaxMsgs
          /\ nextId' = nextId + 1
          /\ tasks' = Resume(t) (+) SetToBag({[t EXCEPT !.kind = "msgSave", !.msg = nextId + 1]})
          /\ delivered' = <<>>
     ELSE /\ tasks' = Resume(t)
          /\ delivered' = SendToClient(t.c, "error", t.user, t.room)
          /\ UNCHANGED nextId
  /\ last' = OpT("sendFindDone", t)
  /\ UNCHANGED clientVars
  /\ UNCHANGED <<conns, connectedUsers, isOnline, typingVars, messages, lastMessage>>

\* newMessage.save() resolved: lines 224-226, up to `await chat.save()`
MsgSaveDone(t) ==
  /\ t.kind = "msgSave"
  /\ messages' = [messages EXCEPT ![t.msg] =
                    [saved |-> TRUE, chat |-> t.room, sender |-> t.user, readBy |-> <<>>]]
  /\ tasks' = Resume(t) (+) SetToBag({[t EXCEPT !.kind = "chatSave"]})
  /\ delivered' = <<>>
  /\ last' = OpT("msgSaveDone", t)
  /\ UNCHANGED clientVars
  /\ UNCHANGED <<conns, connectedUsers, isOnline, typingVars, lastMessage, nextId>>

\* chat.save() resolved: lines 228-230, up to `await Message.findById(...).populate`
ChatSaveDone(t) ==
  /\ t.kind = "chatSave"
  /\ lastMessage' = [lastMessage EXCEPT ![t.room] = t.msg]
  /\ tasks' = Resume(t) (+) SetToBag({[t EXCEPT !.kind = "msgPop"]})
  /\ delivered' = <<>>
  /\ last' = OpT("chatSaveDone", t)
  /\ UNCHANGED clientVars
  /\ UNCHANGED <<conns, connectedUsers, isOnline, typingVars, messages, nextId>>

\* (mutant) the typing claim of the sender is left in place
MsgPopDoneKeepsClaim(t) ==
  /\ t.kind = "msgPop"
  /\ Pending < MaxPending
  /\ tasks' = (Resume(t) (+) SetToBag({ChatTask(t.user, t.room, "new_message", NoUser)}))
                (+) SetToBag({ChatTask(t.user, t.room, "typing_stop", t.user)})
  /\ delivered' = <<>>
  /\ last' = OpT("msgPopDone", t)
  /\ UNCHANGED clientVars
  /\ UNCHANGED <<conns, connectedUsers, isOnline, typingVars, storeVars>>

\* (mutant) new_message is not sent back to the sender
MsgPopDoneExcludesSender(t) ==
  /\ t.kind = "msgPop"
  /\ Pending < MaxPending
  /\ tasks' = (Resume(t) (+) SetToBag({ChatTask(t.user, t.room, "new_message", t.user)}))
                (+) SetToBag({ChatTask(t.user, t.room, "typing_stop", t.user)})
  /\ typingUsers' = DeleteTyping(t.user, t.room)
  /\ delivered' = <<>>
  /\ last' = OpT("msgPopDone", t)
  /\ UNCHANGED clientVars
  /\ UNCHANGED <<conns, connectedUsers, isOnline, timers, now, storeVars>>

\* the populated message is there: lines 232-252
MsgPopDone(t) ==
  /\ t.kind = "msgPop"
  /\ Pending < MaxPending
  /\ tasks' = (Resume(t) (+) SetToBag({ChatTask(t.user, t.room, "new_message", NoUser)}))
                (+) SetToBag({ChatTask(t.user, t.room, "typing_stop", t.user)})
  /\ typingUsers' = DeleteTyping(t.user, t.room)
  /\ delivered' = <<>>
  /\ last' = OpT("msgPopDone", t)
  /\ UNCHANGED clientVars
  /\ UNCHANGED <<conns, connectedUsers, isOnline, timers, now, storeVars>>

\* ------------------------------------------------------------- message_read
\* handleMessageRead up to `await Message.findById`
MessageRead(c, m, r) ==
  /\ Receiving(c)
  /\ Pending < MaxPending
  /\ tasks' = Suspend(Task("readFind", c, conns[c].user, r, "message_read", NoUser, m))
  /\ delivered' = <<>>
  /\ last' = [Op("messageRead", c) EXCEPT !.user = conns[c].user, !.room = r, !.msg = m]
  /\ UNCHANGED clientVars
  /\ UNCHANGED <<conns, connectedUsers, isOnline, typingVars, storeVars>>

AlreadyRead(doc, userId) == \E i \in DOMAIN doc.readBy : doc.readBy[i] = userId

\* (mutant) a receipt is pushed whether or not the user has one
ReadFindDoneAlwaysPush(t) ==
  /\ t.kind = "readFind"
  /\ tasks' = IF ~messages[t.msg].saved THEN Resume(t)
              ELSE Resume(t) (+) SetToBag({[t EXCEPT !.kind = "readSave"]})
  /\ delivered' = <<>>
  /\ last' = OpT("readFindDone", t)
  /\ UNCHANGED clientVars
  /\ UNCHANGED <<conns, connectedUsers, isOnline, typingVars, storeVars>>

\* Message.findById resolved: lines 325-350, up to `await messageDoc.save()` if
\* the receipt is new
ReadFindDone(t) ==
  /\ t.kind = "readFind"
  /\ tasks' = IF ~messages[t.msg].saved THEN Resume(t)
              ELSE IF ~AlreadyRead(messages[t.msg], t.user)
                   THEN Resume(t) (+) SetToBag({[t EXCEPT !.kind = "readSave"]})
                   ELSE Resume(t) (+) SetToBag({ChatTask(t.user, t.room, "message_read", NoUser)})
  /\ delivered' = <<>>
  /\ last' = OpT("readFindDone", t)
  /\ UNCHANGED clientVars
  /\ UNCHANGED <<conns, connectedUsers, isOnline, typingVars, storeVars>>

\* messageDoc.save() resolved (the push of the receipt): lines 340-350
ReadSaveDone(t) ==
  /\ t.kind = "readSave"
  /\ messages' = [messages EXCEPT ![t.msg].readBy = Append(@, t.user)]
  /\ tasks' = Resume(t) (+) SetToBag({ChatTask(t.user, t.room, "message_read", NoUser)})
  /\ delivered' = <<>>
  /\ last' = OpT("readSaveDone", t)
  /\ UNCHANGED clientVars
  /\ UNCHANGED <<conns, connectedUsers, isOnline, typingVars, lastMessage, nextId>>

\* ------------------------------------------ REST: POST /messages/:id/read
\* the route up to `await Message.findById`, for the authenticated user u
RestRead(u, m) ==
  /\ Pending < MaxPending
  /\ tasks' = Suspend(Task("restFind", NoConn, u, NoRoom, "rest_read", NoUser, m))
  /\ delivered' = <<>>
  /\ last' = [Op("restRead", NoConn) EXCEPT !.user = u, !.msg = m]
  /\ UNCHANGED clientVars
  /\ UNCHANGED <<conns, connectedUsers, isOnline, typingVars, storeVars>>

\* Message.findById resolved: 404, or on to `await Chat.findOne` holding the
\* loaded document (of which the route later reads only readBy)
RestFindDone(t) ==
  /\ t.kind = "restFind"
  /\ tasks' = IF ~messages[t.msg].saved THEN Resume(t)
              ELSE Resume(t) (+) SetToBag({[t EXCEPT !.kind = "restChat",
                                                     !.room = messages[t.msg].chat,
                                                     !.seen = AlreadyRead(messages[t.msg], t.user)]})
  /\ delivered' = <<>>
  /\ last' = OpT("restFindDone", t)
  /\ UNCHANGED clientVars
  /\ UNCHANGED <<conns, connectedUsers, isOnline, typingVars, storeVars>>

\* Chat.findOne resolved: 403, or lines 230-241 up to `await message.save()`
RestChatDone(t) ==
  /\ t.kind = "restChat"
  /\ tasks' = IF IsParticipant(t.user, t.room) /\ ~t.seen
              THEN Resume(t) (+) SetToBag({[t EXCEPT !.kind = "restSave"]})
              ELSE Resume(t)
  /\ delivered' = <<>>
  /\ last' = OpT("restChatDone", t)
  /\ UNCHANGED clientVars
  /\ UNCHANGED <<conns, connectedUsers, isOnline, typingVars, storeVars>>

\* message.save() resolved (the push of the receipt)
RestSaveDone(t) ==
  /\ t.kind = "restSave"
  /\ messages' = [messages EXCEPT ![t.msg].readBy = Append(@, t.user)]
  /\ tasks' = Resume(t)
  /\ delivered' = <<>>
  /\ last' = OpT("restSaveDone", t)
  /\ UNCHANGED clientVars
  /\ UNCHANGED <<conns, connectedUsers, isOnline, typingVars, lastMessage, nextId>>

\* ------------------------------------------------------------ receive loop
\* an inbound text frame: does JSON.parse accept it and, if so, what is its
\* type and has it a payload
Recognized == {"join_room", "leave_room", "send_message", "typing_start",
               "typing_stop", "message_read"}
InFrames ==
  {f \in [parses : BOOLEAN, type : Recognized \cup {"other"}, payload : BOOLEAN] :
     ~f.parses => (f.type = "other" /\ ~f.payload)}

\* JSON.parse throws, or the handler of a recognized type throws on its first
\* line, where it destructures message.payload
Throws(f) == ~f.parses \/ (f.type \in Recognized /\ ~f.payload)

\* (mutant) a frame of an unknown type is answered with an error
HandleMessageAnswersUnknown(c, f) ==
  /\ Receiving(c)
  /\ Throws(f) \/ f.type \notin Recognized
  /\ delivered' = SendToClient(c, "error", conns[c].user, NoRoom)
  /\ last' = [Op("handleMessage", c) EXCEPT !.user = conns[c].user]
  /\ UNCHANGED clientVars
  /\ UNCHANGED <<conns, connectedUsers, isOnline, typingVars, storeVars, tasks>>

\* (mutant) the catch of handleMessage only logs
HandleMessageSilent(c, f) ==
  /\ Receiving(c)
  /\ Throws(f) \/ f.type \notin Recognized
  /\ delivered' = <<>>
  /\ last' = [Op("handleMessage", c) EXCEPT !.user = conns[c].user]
  /\ UNCHANGED clientVars
  /\ UNCHANGED <<conns, connectedUsers, isOnline, typingVars, storeVars, tasks>>

\* handleMessage for the frames that reach no handler body: the catch of lines
\* 145-154 answers a throw, the default of lines 142-143 logs an unknown type
HandleMessage(c, f) ==
  /\ Receiving(c)
  /\ Throws(f) \/ f.type \notin Recognized
  /\ delivered' = IF Throws(f) THEN SendToClient(c, "error", conns[c].user, NoRoom)
                  ELSE <<>>
  /\ last' = [Op("handleMessage", c) EXCEPT !.user = conns[c].user]
  /\ UNCHANGED clientVars
  /\ UNCHANGED <<conns, connectedUsers, isOnline, typingVars, storeVars, tasks>>

\* (mutant) leaving a room is announced to the room like a typing_stop
LeaveRoomAnnounces(c, r) ==
  /\ Receiving(c)
  /\ Pending < MaxPending
  /\ typingUsers' = DeleteTyping(conns[c].user, r)
  /\ tasks' = Suspend(ChatTask(conns[c].user, r, "typing_stop", conns[c].user))
  /\ delivered' = SendToClient(c, "room_left", conns[c].user, r)
  /\ last' = [Op("leaveRoom", c) EXCEPT !.user = conns[c].user, !.room = r]
  /\ UNCHANGED clientVars
  /\ UNCHANGED <<conns, connectedUsers, isOnline, timers, now, storeVars>>

\* handleLeaveRoom
LeaveRoom(c, r) ==
  /\ Receiving(c)
  /\ typingUsers' = DeleteTyping(conns[c].user, r)
  /\ delivered' = SendToClient(c, "room_left", conns[c].user, r)
  /\ last' = [Op("leaveRoom", c) EXCEPT !.user = conns[c].user, !.room = r]
  /\ UNCHANGED clientVars
  /\ UNCHANGED <<conns, connectedUsers, isOnline, timers, now, storeVars, tasks>>

\* ------------------------------------------------------ the store rejects
\* the catch of the connection handler, lines 106-109
SetupCatch(c) ==
  /\ conns' = [conns EXCEPT ![c].st = "aborted", ![c].code = CloseInternal,
                            ![c].sock = IF @ = "open" THEN "closing" ELSE @]
  /\ delivered' = <<>>
  /\ UNCHANGED <<connectedUsers, isOnline, typingVars, storeVars, tasks>>

\* User.findById rejected
LookupFail(c) ==
  /\ conns[c].st = "lookup"
  /\ SetupCatch(c)
  /\ last' = Op("lookupFail", c)
  /\ UNCHANGED clientVars

\* (mutant) a rejected user.save() is logged and the socket left as it is
SaveFailLeavesOpen(c) ==
  /\ conns[c].st = "saving"
  /\ conns' = [conns EXCEPT ![c].st = "aborted"]
  /\ delivered' = <<>>
  /\ last' = Op("saveFail", c)
  /\ UNCHANGED clientVars
  /\ UNCHANGED <<connectedUsers, isOnline, typingVars, storeVars, tasks>>

\* user.save() rejected: the entry of line 57 is in the registry by then
SaveFail(c) ==
  /\ conns[c].st = "saving"
  /\ SetupCatch(c)
  /\ last' = Op("saveFail", c)
  /\ UNCHANGED clientVars

\* User.findByIdAndUpdate rejected: the catch of lines 387-389 logs, and the
\* broadcast of lines 379-386, inside the same try, is skipped
UpdateFail(c) ==
  /\ conns[c].disc = "updating"
  /\ conns' = [conns EXCEPT ![c].disc = "failed"]
  /\ delivered' = <<>>
  /\ last' = Op("updateFail", c)
  /\ UNCHANGED clientVars
  /\ UNCHANGED <<connectedUsers, isOnline, typingVars, storeVars, tasks>>

\* the catch of handleSendMessage, lines 254-260
SendCatch(t) ==
  /\ tasks' = Resume(t)
  /\ delivered' = SendToClient(t.c, "error", t.user, t.room)
  /\ UNCHANGED <<conns, connectedUsers, isOnline, typingVars, storeVars>>

\* newMessage.save() rejected
MsgSaveFail(t) ==
  /\ t.kind = "msgSave"
  /\ SendCatch(t)
  /\ last' = OpT("msgSaveFail", t)
  /\ UNCHANGED clientVars

\* chat.save() rejected
ChatSaveFail(t) ==
  /\ t.kind = "chatSave"
  /\ SendCatch(t)
  /\ last' = OpT("chatSaveFail", t)
  /\ UNCHANGED clientVars

\* Message.findById(...).populate rejected
MsgPopFail(t) ==
  /\ t.kind = "msgPop"
  /\ SendCatch(t)
  /\ last' = OpT("msgPopFail", t)
  /\ UNCHANGED clientVars

\* the connection lifecycle: every user connects, reconnects and disconnects
NextConn ==
  \/ \E c \in Conns, tok \in Users : NewConnection(c, tok)
  \/ \E c \in Conns : LookupDone(c)
  \/ \E c \in Conns : SaveDone(c)
  \/ \E c \in Conns : SocketClose(c)
  \/ \E c \in Conns : CloseEvent(c)
  \/ \E c \in Conns : UpdateDone(c)
  \/ \E t \in BagToSet(tasks) : UserChatsDone(t)

Spec == Init /\ [][NextConn]_vars

\* the liveness monitor over the connections of one user
NextLive ==
  \/ \E c \in Conns : NewConnection(c, "u1")
  \/ \E c \in Conns : LookupDone(c)
  \/ \E c \in Conns : SaveDone(c)
  \/ \E c \in Conns : SocketClose(c)
  \/ \E c \in Conns : CloseEvent(c)
  \/ \E c \in Conns : UpdateDone(c)
  \/ \E c \in Conns : Pong(c)
  \/ Heartbeat
  \/ \E t \in BagToSet(tasks) : UserChatsDone(t)

SpecLive == Init /\ [][NextLive]_vars

\* ------------------------------------------------- a hub with its users in
\* u1 and u2 have connected (connections 1 and 2) and their setup has ended
ReadyConn(u) == [FreeConn EXCEPT !.st = "ready", !.user = u, !.sock = "open", !.alive = "yes"]

InitChat ==
  /\ conns = [c \in Conns |-> IF c = 1 THEN ReadyConn("u1")
                              ELSE IF c = 2 THEN ReadyConn("u2") ELSE FreeConn]
  /\ connectedUsers = [u \in Users |-> IF u = "u1" THEN 1 ELSE IF u = "u2" THEN 2 ELSE NoConn]
  /\ isOnline = [u \in Users |-> u \in {"u1", "u2"}]
  /\ typingUsers = {}
  /\ timers = EmptyBag
  /\ now = 0
  /\ messages = [m \in MsgIds |-> NoMessage]
  /\ lastMessage = [r \in Rooms |-> NoMsg]
  /\ nextId = 0
  /\ tasks = EmptyBag
  /\ delivered = <<>>
  /\ last = Op("init", NoConn)
  /\ ClientInit

\* the typing tracker: starts, stops and expiries of both users in both rooms
NextTyping ==
  \/ \E c \in Conns, r \in Rooms : TypingStart(c, r)
  \/ \E c \in Conns, r \in Rooms : TypingStop(c, r)
  \/ \E x \in BagToSet(timers) : Expire(x)
  \/ Tick
  \/ \E t \in BagToSet(tasks) : ChatDone(t)

SpecTyping == InitChat /\ [][NextTyping]_vars

\* send_message in both rooms, with typing in room r1
NextSend ==
  \/ \E c \in Conns, r \in Rooms : SendMessage(c, r)
  \/ \E t \in BagToSet(tasks) : SendFindDone(t)
  \/ \E t \in BagToSet(tasks) : MsgSaveDone(t)
  \/ \E t \in BagToSet(tasks) : ChatSaveDone(t)
  \/ \E t \in BagToSet(tasks) : MsgPopDone(t)
  \/ TypingStart(1, "r1")
  \/ \E x \in BagToSet(timers) : Expire(x)
  \/ Tick
  \/ \E t \in BagToSet(tasks) : ChatDone(t)

SpecSend == InitChat /\ [][NextSend]_vars

\* message_read events and REST mark-as-read requests on a stored message of r1
InitRead ==
  /\ conns = [c \in Conns |-> IF c = 1 THEN ReadyConn("u1")
                              ELSE IF c = 2 THEN ReadyConn("u2") ELSE FreeConn]
  /\ connectedUsers = [u \in Users |-> IF u = "u1" THEN 1 ELSE IF u = "u2" THEN 2 ELSE NoConn]
  /\ isOnline = [u \in Users |-> u \in {"u1", "u2"}]
  /\ typingUsers = {}
  /\ timers = EmptyBag
  /\ now = 0
  /\ messages = [m \in MsgIds |-> IF m = 1
                   THEN [saved |-> TRUE, chat |-> "r1", sender |-> "u1", readBy |-> <<>>]
                   ELSE NoMessage]
  /\ lastMessage = [r \in Rooms |-> IF r = "r1" THEN 1 ELSE NoMsg]
  /\ nextId = 1
  /\ tasks = EmptyBag
  /\ delivered = <<>>
  /\ last = Op("init", NoConn)
  /\ ClientInit

NextRead ==
  \/ \E c \in Conns, m \in MsgIds, r \in Rooms : MessageRead(c, m, r)
  \/ \E t \in BagToSet(tasks) : ReadFindDone(t)
  \/ \E t \in BagToSet(tasks) : ReadSaveDone(t)
  \/ RestRead("u2", 1)
  \/ \E t \in BagToSet(tasks) : RestFindDone(t)
  \/ \E t \in BagToSet(tasks) : RestChatDone(t)
  \/ \E t \in BagToSet(tasks) : RestSaveDone(t)
  \/ \E t \in BagToSet(tasks) : ChatDone(t)

SpecRead == InitRead /\ [][NextRead]_vars

\* typing and disconnects: the users of the hub type and go away
NextGone ==
  \/ \E c \in Conns, r \in Rooms : TypingStart(c, r)
  \/ \E c \in Conns : SocketClose(c)
  \/ \E c \in Conns : CloseEvent(c)
  \/ \E c \in Conns : UpdateDone(c)
  \/ \E c \in Conns : UpdateFail(c)
  \/ \E t \in BagToSet(tasks) : UserChatsDone(t)
  \/ \E t \in BagToSet(tasks) : ChatDone(t)

SpecGone == InitChat /\ [][NextGone]_vars

\* the handshake with every kind of credential, and frames sent in afterwards
AuthTokens == {"u1", "none", "bad", "ghost"}

NextAuth ==
  \/ \E c \in Conns, tok \in AuthTokens : NewConnection(c, tok)
  \/ \E c \in Conns : LookupDone(c)
  \/ \E c \in Conns : SaveDone(c)
  \/ \E c \in Conns : SocketClose(c)
  \/ \E c \in Conns : CloseEvent(c)
  \/ \E c \in Conns : UpdateDone(c)
  \/ \E c \in Conns : TypingStop(c, "r1")
  \/ \E t \in BagToSet(tasks) : UserChatsDone(t)
  \/ \E t \in BagToSet(tasks) : ChatDone(t)

SpecAuth == Init /\ [][NextAuth]_vars

\* send_message with a store that may reject each write and the re-fetch
NextFail ==
  \/ \E c \in Conns, r \in Rooms : SendMessage(c, r)
  \/ \E t \in BagToSet(tasks) : SendFindDone(t)
  \/ \E t \in BagToSet(tasks) : MsgSaveDone(t)
  \/ \E t \in BagToSet(tasks) : MsgSaveFail(t)
  \/ \E t \in BagToSet(tasks) : ChatSaveDone(t)
  \/ \E t \in BagToSet(tasks) : ChatSaveFail(t)
  \/ \E t \in BagToSet(tasks) : MsgPopDone(t)
  \/ \E t \in BagToSet(tasks) : MsgPopFail(t)
  \/ \E c \in Conns : SocketClose(c)
  \/ \E t \in BagToSet(tasks) : ChatDone(t)

SpecFail == InitChat /\ [][NextFail]_vars

\* the receive loop: frames that fail, leave_room, and typing around them
NextFrames ==
  \/ \E c \in Conns, f \in InFrames : HandleMessage(c, f)
  \/ \E c \in Conns, r \in Rooms : LeaveRoom(c, r)
  \/ \E c \in Conns, r \in Rooms : TypingStart(c, r)
  \/ \E t \in BagToSet(tasks) : ChatDone(t)

SpecFrames == InitChat /\ [][NextFrames]_vars

\* connection setup with a store that may reject the lookup and the save
NextSetup ==
  \/ \E c \in Conns, tok \in {"u1", "u2"} : NewConnection(c, tok)
  \/ \E c \in Conns : LookupDone(c)
  \/ \E c \in Conns : LookupFail(c)
  \/ \E c \in Conns : SaveDone(c)
  \/ \E c \in Conns : SaveFail(c)
  \/ \E c \in Conns : SocketClose(c)
  \/ \E c \in Conns : CloseEvent(c)
  \/ \E c \in Conns : UpdateDone(c)
  \/ \E t \in BagToSet(tasks) : UserChatsDone(t)

SpecSetup == Init /\ [][NextSetup]_vars

\* typing where no claim is ever refreshed: a user starts typing in a room
\* only while it has no claim there
TypingStartFresh(c, r) == ~HasTyping(conns[c].user, r) /\ TypingStart(c, r)

NextOnce ==
  \/ \E c \in Conns, r \in Rooms : TypingStartFresh(c, r)
  \/ \E c \in Conns, r \in Rooms : TypingStop(c, r)
  \/ \E x \in BagToSet(timers) : Expire(x)
  \/ Tick
  \/ \E t \in BagToSet(tasks) : ChatDone(t)

SpecOnce == InitChat /\ [][NextOnce]_vars

\* every event that touches the claim of one key, (u1, r1), interleaved with
\* the disconnect of u1 and the expiries
NextClaims ==
  \/ TypingStart(1, "r1")
  \/ TypingStop(1, "r1")
  \/ LeaveRoom(1, "r1")
  \/ SendMessage(1, "r1")
  \/ \E t \in BagToSet(tasks) : SendFindDone(t)
  \/ \E t \in BagToSet(tasks) : MsgSaveDone(t)
  \/ \E t \in BagToSet(tasks) : ChatSaveDone(t)
  \/ \E t \in BagToSet(tasks) : MsgPopDone(t)
  \/ SocketClose(1)
  \/ CloseEvent(1)
  \/ UpdateDone(1)
  \/ \E x \in BagToSet(timers) : Expire(x)
  \/ Tick
  \/ \E t \in BagToSet(tasks) : UserChatsDone(t)
  \/ \E t \in BagToSet(tasks) : ChatDone(t)

SpecClaims == InitChat /\ [][NextClaims]_vars

\* the liveness monitor with its scheduling: the interval timer keeps firing,
\* the store answers every call, a socket that is closing emits 'close', and
\* the peers answer the pings they get
FairLive ==
  /\ WF_vars(Heartbeat)
  /\ WF_vars(\E t \in BagToSet(tasks) : UserChatsDone(t))
  /\ \A c \in Conns :
       /\ WF_vars(LookupDone(c)) /\ WF_vars(SaveDone(c))
       /\ WF_vars(CloseEvent(c)) /\ WF_vars(UpdateDone(c))
       /\ WF_vars(Pong(c))

SpecLiveFair == Init /\ [][NextLive]_vars /\ FairLive

\* how a claim of (u1, r1) ends, short of a send: stop, leave, disconnect or
\* expiry, with the scheduling of the hub: time passes, due timers fire, the
\* store answers every call and a closing socket emits 'close'
NextStuck ==
  \/ TypingStart(1, "r1")
  \/ TypingStop(1, "r1")
  \/ LeaveRoom(1, "r1")
  \/ SocketClose(1)
  \/ CloseEvent(1)
  \/ UpdateDone(1)
  \/ \E x \in BagToSet(timers) : Expire(x)
  \/ Tick
  \/ \E t \in BagToSet(tasks) : UserChatsDone(t)
  \/ \E t \in BagToSet(tasks) : ChatDone(t)

FairStuck ==
  /\ WF_vars(Tick)
  /\ SF_vars(\E x \in BagToSet(timers) : Expire(x))
  /\ \A t \in [kind : {"chat"}, c : {NoConn}, user : {"u1"}, room : {"r1"},
               type : {"typing_start", "typing_stop"}, excl : {"u1"},
               msg : {NoMsg}, seen : {FALSE}] : WF_vars(BagIn(t, tasks) /\ ChatDone(t))
  /\ WF_vars(\E t \in BagToSet(tasks) : UserChatsDone(t))
  /\ WF_vars(CloseEvent(1))
  /\ SF_vars(UpdateDone(1))

SpecStuck == InitChat /\ [][NextStuck]_vars /\ FairStuck

\* ===================================================================== claims
Registered(c) == conns[c].user \in Users /\ connectedUsers[conns[c].user] = c
Live(c) == conns[c].sock = "open"
CountTo(c) == Cardinality({i \in DOMAIN delivered : delivered[i].to = c})
SharesRoom(u, v) == \E r \in Rooms : IsParticipant(u, r) /\ IsParticipant(v, r)

\* C1: the disconnect handling of a connection c of user U that is no longer
\* the one registered for U leaves the registry entry of U as it is: the newer
\* connection stays registered.
C1_StaleDisconnectKeepsNewer ==
  [][\A c \in Conns :
       (CloseEvent(c) /\ conns[c].st = "ready" /\ ~Registered(c))
         => connectedUsers'[conns[c].user] = connectedUsers[conns[c].user]]_vars

\* C2: whenever no connect and no disconnect handling is in progress, a user
\* has a registry entry iff the store marks the user online.
Quiescent ==
  \A c \in Conns : conns[c].st \notin {"lookup", "saving"} /\ conns[c].disc # "updating"

C2_RegistryIffOnline ==
  Quiescent => \A u \in Users : (connectedUsers[u] # NoConn) <=> isOnline[u]

\* C8: a registered connection is not terminated by the heartbeat tick that
\* finds it confirmed alive, is terminated by the next tick if no pong came in
\* between, and that termination runs the disconnect handling, which ends in a
\* user_offline fanout.
C8_TwoTickRule ==
  [][Heartbeat => \A c \in Clients : Registered(c) =>
        /\ (conns[c].alive = "yes" => conns'[c].sock = "open" /\ conns'[c].alive = "no")
        /\ (conns[c].alive = "no" => conns'[c].sock = "closing" /\ conns'[c].term)]_vars

C8_TerminationDisconnects ==
  [][/\ Heartbeat => \A c \in Clients : Registered(c) =>
          /\ (conns[c].alive = "yes" => conns'[c].sock = "open" /\ conns'[c].alive = "no")
          /\ (conns[c].alive = "no" => conns'[c].sock = "closing" /\ conns'[c].term)
     /\ \A c \in Conns : (conns[c].term /\ Registered(c) /\ CloseEvent(c))
          => conns'[c].disc = "updating"
     /\ \A c \in Conns : (conns[c].term /\ UpdateDone(c)) =>
          BagIn(UserChatsTask(c, conns[c].user, "user_offline"), tasks')]_vars

\* C9: the heartbeat never terminates a connection whose peer has answered the
\* ping of the previous tick, whatever the stage of the connection's setup.
C9_NoFalsePositive ==
  [][Heartbeat => \A c \in Clients : conns'[c].term => conns[c].pinged]_vars

\* C10: a presence fanout of user U writes exactly one frame to the registered
\* live connection of every other user sharing a room with U, and no frame to
\* any other connection (none to a connection of U).
C10_PresenceOncePerMember ==
  last.op = "userChatsDone" =>
    LET U == conns[last.c].user IN
    \A c \in Conns :
      CountTo(c) = IF /\ Registered(c) /\ Live(c)
                      /\ conns[c].user # U /\ SharesRoom(U, conns[c].user)
                   THEN 1 ELSE 0

C10_Witness ==
  /\ last.op = "userChatsDone"
  /\ \E c \in Conns : /\ CountTo(c) = 1
                       /\ Cardinality({r \in Rooms : IsParticipant(conns[c].user, r)
                                          /\ IsParticipant(conns[last.c].user, r)}) > 1

\* C3: an expiry removes the typing claim of (U, R), and emits its typing_stop,
\* no earlier than 3000 ms after the most recent typing_start of (U, R).
C3_RefreshDefersExpiry ==
  [][\A x \in BagToSet(timers) :
       (Expire(x) /\ HasTyping(x.userId, x.chatId))
         => now >= TypingOf(x.userId, x.chatId).timestamp + TypingTimeout]_vars

\* C4: a typing_stop event for (U, R) handled while no claim of (U, R) exists
\* emits nothing (no fanout is started) and leaves the typing map as it is.
C4_StopWithoutClaimIsNoOp ==
  [][\A c \in Conns, r \in Rooms :
       (TypingStop(c, r) /\ ~HasTyping(conns[c].user, r))
         => tasks' = tasks /\ typingUsers' = typingUsers]_vars

\* C5: the last step of a successful send_message of U in R leaves no typing
\* claim of (U, R) and starts exactly one typing_stop fanout of (U, R), claim
\* or no claim; that fanout writes one frame to the registered live connection
\* of every member of R but U and none to any other connection; an expiry that
\* runs when the claim is gone starts no fanout and changes no claim.
StopTask(u, r) == ChatTask(u, r, "typing_stop", u)

C6_NonMemberSendRejected ==
  [][\A t \in BagToSet(tasks) :
       (SendFindDone(t) /\ ~IsParticipant(t.user, t.room)) =>
         /\ \A i \in DOMAIN delivered' :
              delivered'[i].to = t.c /\ delivered'[i].type = "error"
         /\ Len(delivered') = IF Live(t.c) THEN 1 ELSE 0
         /\ messages' = messages /\ lastMessage' = lastMessage /\ nextId' = nextId
         /\ typingUsers' = typingUsers
         /\ \A q \in BagToSet(tasks') : CopiesIn(q, tasks') <= CopiesIn(q, tasks)]_vars

C6_Witness ==
  /\ last.op = "sendFindDone"
  /\ ~IsParticipant(last.user, last.room)
  /\ delivered = <<Frame(last.c, "error", last.user, last.room)>>

\* C7: message_read of a user who has a receipt on the message stores nothing
\* and still starts the message_read fanout; the save of a first receipt leaves
\* one receipt of the user and starts the fanout; the fanout writes one frame to
\* the registered live connection of every member of the room, the reader's too.
\* The REST route stores nothing either for a user whose receipt it has loaded.
Receipts(m, u) == Cardinality({i \in DOMAIN messages[m].readBy : messages[m].readBy[i] = u})
ReadTask(u, r) == ChatTask(u, r, "message_read", NoUser)

C7_SecondReadKeepsOneReceipt ==
  [][/\ \A t \in BagToSet(tasks) :
          (ReadFindDone(t) /\ messages[t.msg].saved /\ Receipts(t.msg, t.user) > 0) =>
            /\ messages' = messages
            /\ \A q \in BagToSet(tasks') : q.kind # "readSave" \/ BagIn(q, tasks)
            /\ CopiesIn(ReadTask(t.user, t.room), tasks')
                 = CopiesIn(ReadTask(t.user, t.room), tasks) + 1
     /\ \A t \in BagToSet(tasks) :
          (ReadSaveDone(t) /\ Receipts(t.msg, t.user) = 0) =>
            /\ Receipts(t.msg, t.user)' = 1
            /\ CopiesIn(ReadTask(t.user, t.room), tasks')
                 = CopiesIn(ReadTask(t.user, t.room), tasks) + 1
     /\ \A t \in BagToSet(tasks) :
          (RestFindDone(t) /\ messages[t.msg].saved /\ Receipts(t.msg, t.user) > 0) =>
            \A q \in BagToSet(tasks') : q.kind = "restChat" /\ ~BagIn(q, tasks) => q.seen
     /\ \A t \in BagToSet(tasks) : (RestChatDone(t) /\ t.seen) =>
          messages' = messages /\ tasks' = Resume(t)
     /\ \A t \in BagToSet(tasks) : (ChatDone(t) /\ t.type = "message_read") =>
          \A c \in Conns :
            CountTo(c)' = IF /\ Registered(c) /\ Live(c)
                             /\ IsParticipant(conns[c].user, t.room)
                          THEN 1 ELSE 0]_vars

C7_Witness ==
  /\ last.op = "readFindDone"
  /\ messages[last.msg].saved
  /\ Receipts(last.msg, last.user) = 1
  /\ BagIn(ReadTask(last.user, last.room), tasks)
\* C11: handleTypingStart starts one typing_start fanout of (A, R); that fanout
\* writes one frame to the registered live connection of every member of R
\* other than A, and no frame to any connection of A or of a non-member.
C11_TypingStartReachesOthers ==
  [][/\ \A c \in Conns, r \in Rooms : TypingStart(c, r) =>
          \E q \in BagToSet(tasks') :
            /\ q.kind = "chat" /\ q.type = "typing_start"
            /\ q.user = conns[c].user /\ q.room = r
            /\ CopiesIn(q, tasks') = CopiesIn(q, tasks) + 1
     /\ \A t \in BagToSet(tasks) : (ChatDone(t) /\ t.type = "typing_start") =>
          \A c \in Conns :
            CountTo(c)' = IF /\ Registered(c) /\ Live(c) /\ conns[c].user # t.user
                             /\ IsParticipant(conns[c].user, t.room)
                          THEN 1 ELSE 0]_vars

C11_Witness ==
  /\ last.op = "chatDone"
  /\ delivered = <<Frame(2, "typing_start", "u1", "r1")>>
  /\ Live(1) /\ Registered(1)

\* C12: the last step of a successful send_message of A in R starts exactly one
\* new_message fanout of R; that fanout writes one frame to the registered live
\* connection of every member of R, A's included, and none to a non-member.
NewMessageTasks(r) ==
  LET S == {q \in BagToSet(tasks) : q.kind = "chat" /\ q.type = "new_message" /\ q.room = r}
      RECURSIVE Sum(_)
      Sum(T) == IF T = {} THEN 0
                ELSE LET q == CHOOSE x \in T : TRUE IN CopiesIn(q, tasks) + Sum(T \ {q})
  IN Sum(S)

C12_NewMessageToEveryMember ==
  [][/\ \A t \in BagToSet(tasks) : MsgPopDone(t) =>
          /\ NewMessageTasks(t.room)' = NewMessageTasks(t.room) + 1
          /\ \A r \in Rooms \ {t.room} : NewMessageTasks(r)' = NewMessageTasks(r)
     /\ \A t \in BagToSet(tasks) : (ChatDone(t) /\ t.type = "new_message") =>
          \A c \in Conns :
            CountTo(c)' = IF /\ Registered(c) /\ Live(c)
                             /\ IsParticipant(conns[c].user, t.room)
                          THEN 1 ELSE 0]_vars

C12_Witness ==
  /\ last.op = "chatDone"
  /\ delivered = <<Frame(1, "new_message", "u1", "r1"), Frame(2, "new_message", "u1", "r1")>>
\* C13: a connection with no credential, with a credential that fails
\* verification, or with one that names no stored user is closed once refused,
\* is never the value of a registry entry, never runs the disconnect handling,
\* never receives; and no step on it changes isOnline, starts a fanout or
\* writes a frame.
Unauth(c) ==
  conns[c].code # 0 \/ (conns[c].st # "free" /\ conns[c].user \notin Users)

C13_RefusedStaysOutside ==
  [][\A c \in Conns : Unauth(c)' =>
       /\ \A u \in Users : connectedUsers'[u] # c
       /\ conns'[c].st \in {"lookup", "refused"}
       /\ conns'[c].st = "refused" => conns'[c].sock \in {"closing", "closed"}
       /\ conns'[c].disc = "none"
       /\ ~Receiving(c)'
       /\ last'.c = c =>
            /\ last'.op \in {"connection", "lookupDone", "socketClose", "close"}
            /\ isOnline' = isOnline /\ tasks' = tasks /\ delivered' = <<>>]_vars

C13_Witness ==
  /\ \E c \in Conns : conns[c].st = "refused" /\ conns[c].user = "ghost"
                       /\ conns[c].sock = "closed"
  /\ \E c \in Conns : conns[c].st = "refused" /\ conns[c].user = NoUser
                       /\ conns[c].sock = "closed"
  /\ last.op = "close"

\* C14: the three causes of refusal close with three distinct codes: no
\* credential with CloseNoToken, a credential that fails verification or names
\* no stored user with CloseBadToken, and never with CloseInternal.
C14_CloseCodePerCause ==
  [][/\ Cardinality({CloseNoToken, CloseBadToken, CloseInternal}) = 3
     /\ \A c \in Conns :
          /\ NewConnection(c, "none") => conns'[c].code = CloseNoToken
          /\ NewConnection(c, "bad") => conns'[c].code = CloseBadToken
          /\ (LookupDone(c) /\ conns[c].user \notin Users) =>
               conns'[c].code = CloseBadToken]_vars
\* C15: the registry is a map from user ids to connections, one value per
\* user; the step that authenticates connection c of U sets the entry of U to
\* c, whatever it was, and changes the entry of nobody else.
C15_RegistrySetOverwrites ==
  [][/\ connectedUsers' \in [Users -> Conns \cup {NoConn}]
     /\ \A c \in Conns : (LookupDone(c) /\ conns[c].user \in Users) =>
          /\ connectedUsers'[conns[c].user] = c
          /\ \A v \in Users \ {conns[c].user} : connectedUsers'[v] = connectedUsers[v]]_vars

C15_Witness ==
  /\ last.op = "lookupDone"
  /\ \E c \in Conns \ {last.c} :
       /\ conns[c].user = conns[last.c].user /\ conns[c].st = "ready" /\ Live(c)
  /\ Registered(last.c)

\* C16: the disconnect handling of the connection that is registered for U
\* leaves the registry without an entry for U, and the entry stays empty until
\* a connection of U authenticates.
C16_DisconnectEmptiesEntry ==
  [][/\ \A c \in Conns : (CloseEvent(c) /\ conns[c].st = "ready" /\ Registered(c)) =>
          connectedUsers'[conns[c].user] = NoConn
     /\ \A u \in Users : (connectedUsers[u] = NoConn /\ connectedUsers'[u] # NoConn) =>
          \E c \in Conns : LookupDone(c) /\ conns[c].user = u]_vars

C16_Witness ==
  /\ last.op = "close"
  /\ conns[last.c].disc = "updating"
  /\ connectedUsers[conns[last.c].user] = NoConn
  /\ \A c \in Conns : conns[c].user = conns[last.c].user => c = last.c
\* C17: the disconnect handling of a connection of U removes every typing
\* claim of U, in every room, and keeps every claim of every other user.
C17_DisconnectClearsOwnClaims ==
  [][\A c \in Conns : (CloseEvent(c) /\ conns[c].st = "ready") =>
       /\ \A t \in typingUsers' : t.userId # conns[c].user
       /\ \A t \in typingUsers : t.userId # conns[c].user => t \in typingUsers']_vars

C17_Witness ==
  /\ last.op = "close"
  /\ conns[last.c].disc = "updating"
  /\ \E x \in BagToSet(timers) : x.userId = conns[last.c].user
  /\ \E t \in typingUsers : t.userId # conns[last.c].user

\* C18: the close of an authenticated connection runs the disconnect handling,
\* and the handling ends by starting a user_offline fanout of its user whether
\* the store accepted or rejected the presence update.
C18_OfflineFanoutAlways ==
  [][\A c \in Conns :
       /\ (CloseEvent(c) /\ conns[c].st = "ready") => conns'[c].disc = "updating"
       /\ (UpdateDone(c) \/ UpdateFail(c)) =>
            CopiesIn(UserChatsTask(c, conns[c].user, "user_offline"), tasks')
              = CopiesIn(UserChatsTask(c, conns[c].user, "user_offline"), tasks) + 1]_vars

\* C19: a fanout started by an event of a user who is no member of the room
\* writes no frame to a connection of anybody but that user.
C19_NonMemberEventStaysPrivate ==
  [][\A t \in BagToSet(tasks) : (ChatDone(t) /\ ~IsParticipant(t.user, t.room)) =>
       \A i \in DOMAIN delivered' : conns[delivered'[i].to].user = t.user]_vars

\* C20: when the store rejects a call of send_message, the step writes one
\* error frame to the sender and nothing else, starts no fanout, and the
\* message of the event is not in the store nor the last message of its room.
C20_FailedSendLeavesNothing ==
  [][\A t \in BagToSet(tasks) : (MsgSaveFail(t) \/ ChatSaveFail(t) \/ MsgPopFail(t)) =>
       /\ \A i \in DOMAIN delivered' :
            delivered'[i].to = t.c /\ delivered'[i].type = "error"
       /\ Len(delivered') = IF Live(t.c) THEN 1 ELSE 0
       /\ \A q \in BagToSet(tasks') : CopiesIn(q, tasks') <= CopiesIn(q, tasks)
       /\ ~messages'[t.msg].saved
       /\ lastMessage'[t.room] # t.msg]_vars
\* C21: message_read naming a message that is not in the store writes one
\* error frame to the sender's connection, stores no receipt and starts no
\* message_read fanout.
C21_MissingMessageAnswered ==
  [][\A t \in BagToSet(tasks) : (ReadFindDone(t) /\ ~messages[t.msg].saved) =>
       /\ delivered' = SendToClient(t.c, "error", t.user, t.room)
       /\ messages' = messages
       /\ \A q \in BagToSet(tasks') : CopiesIn(q, tasks') <= CopiesIn(q, tasks)]_vars

\* C24: an event received on a connection takes effect only when no handler
\* of an earlier event of the same connection is still waiting on the store:
\* the typing claim of a typing_start is not set ahead of the writes and the
\* fanouts of a send_message received before it.
HandlerKinds == {"sendFind", "msgSave", "chatSave", "msgPop", "readFind", "readSave"}

C24_ReceiptOrderPerConnection ==
  [][\A c \in Conns, r \in Rooms : TypingStart(c, r) =>
       \A t \in BagToSet(tasks) : ~(t.c = c /\ t.kind \in HandlerKinds)]_vars

\* C27: an expiry whose claim is not current (the key has no claim, or has a
\* claim of a later start) removes no claim and starts no typing_stop fanout.
C27_StaleExpiryIsNoOp ==
  [][\A x \in BagToSet(timers) :
       (/\ Expire(x)
        /\ \/ ~HasTyping(x.userId, x.chatId)
           \/ TypingOf(x.userId, x.chatId).timestamp + TypingTimeout # x.due)
         => typingUsers' = typingUsers /\ tasks' = tasks]_vars

\* C29: the typing_stop fanout of a send_message does not run while the
\* new_message fanout of the same send is still waiting for its chat lookup.
C29_NewMessageBeforeStop ==
  [][\A t \in BagToSet(tasks) : (ChatDone(t) /\ t.type = "typing_stop") =>
       ~\E q \in BagToSet(tasks) :
          q.kind = "chat" /\ q.type = "new_message" /\ q.user = t.user /\ q.room = t.room]_vars
\* C22: a frame that JSON.parse rejects, or a frame of a recognized type with
\* no payload, writes exactly one error frame, to the connection it came in
\* on, and changes nothing else: the connection, the registry, the typing map,
\* the timers, the store and the pending fanouts stay as they are.
C22_MalformedFrameAnswered ==
  [][\A c \in Conns, f \in InFrames : (HandleMessage(c, f) /\ Throws(f)) =>
       /\ delivered' = <<Frame(c, "error", conns[c].user, NoRoom)>>
       /\ conns' = conns /\ Live(c)' /\ Registered(c)'
       /\ connectedUsers' = connectedUsers
       /\ typingUsers' = typingUsers /\ timers' = timers
       /\ messages' = messages /\ tasks' = tasks]_vars

C22_Witness ==
  /\ last.op = "handleMessage"
  /\ delivered = <<Frame(last.c, "error", last.user, NoRoom)>>
  /\ typingUsers # {}
  /\ tasks # EmptyBag

\* C30: leave_room of U for R removes the claim of (U, R) and no other claim,
\* writes one room_left frame to the connection it came in on, starts no
\* fanout, and leaves the registry as it is.
C30_LeaveRoomIsLocal ==
  [][\A c \in Conns, r \in Rooms : LeaveRoom(c, r) =>
       /\ ~HasTyping(conns[c].user, r)'
       /\ \A t \in typingUsers :
            ~(t.userId = conns[c].user /\ t.chatId = r) => t \in typingUsers'
       /\ typingUsers' \subseteq typingUsers
       /\ delivered' = <<Frame(c, "room_left", conns[c].user, r)>>
       /\ tasks' = tasks
       /\ connectedUsers' = connectedUsers]_vars

C30_Witness ==
  /\ last.op = "leaveRoom"
  /\ \E x \in BagToSet(timers) : x.userId = last.user /\ x.chatId = last.room
  /\ ~HasTyping(last.user, last.room)
  /\ typingUsers # {}
\* C23: a store call of the setup that rejects after the token was verified
\* closes the socket, if it is still open, with CloseInternal; so no socket is
\* open whose setup has ended without installing the listeners.
C23_SetupFailureCloses ==
  [][/\ \A c \in Conns : (LookupFail(c) \/ SaveFail(c)) =>
          /\ conns'[c].code = CloseInternal
          /\ Live(c) => conns'[c].sock = "closing"
     /\ \A c \in Conns : Live(c)' => conns'[c].st \in {"lookup", "saving", "ready"}]_vars

C23_Witness ==
  /\ last.op = "saveFail"
  /\ conns[last.c].sock = "closing"
  /\ conns[last.c].code = CloseInternal
\* C25: in a fanout, a target whose registered socket is not open (the send to
\* it fails) does not keep any other target from its frame: every target with
\* a registered open socket gets the event.
Targets(t) == SeqToSet(Participants[t.room]) \ {t.excl}

C25_SendsAreIndependent ==
  [][\A t \in BagToSet(tasks) : ChatDone(t) =>
       \A u \in Targets(t) :
         (connectedUsers[u] # NoConn /\ Live(connectedUsers[u]))
           => CountTo(connectedUsers[u])' = 1]_vars

C25_Witness ==
  /\ last.op = "chatDone"
  /\ \E i \in DOMAIN delivered : delivered[i].type = "new_message" /\ delivered[i].to = 2
  /\ connectedUsers["u1"] = 1 /\ ~Live(1)
  /\ IsParticipant("u1", last.room)
\* C26: where claims are never refreshed, the expiry that removes the claim of
\* (U, R) runs 3000 ms after the start of that claim, not before, and starts
\* one typing_stop fanout of the shape of an explicit stop; no claim is older
\* than 3000 ms; the fanout writes one frame to the registered live connection
\* of every member of R but U.
C26_ExpiryAfterTimeout ==
  [][/\ \A x \in BagToSet(timers) : (Expire(x) /\ HasTyping(x.userId, x.chatId)) =>
          /\ now = TypingOf(x.userId, x.chatId).timestamp + TypingTimeout
          /\ ~HasTyping(x.userId, x.chatId)'
          /\ CopiesIn(StopTask(x.userId, x.chatId), tasks')
               = CopiesIn(StopTask(x.userId, x.chatId), tasks) + 1
     /\ \A t \in typingUsers' : now' <= t.timestamp + TypingTimeout
     /\ \A t \in BagToSet(tasks) : (ChatDone(t) /\ t.type = "typing_stop") =>
          \A c \in Conns :
            CountTo(c)' = IF /\ Registered(c) /\ Live(c) /\ conns[c].user # t.user
                             /\ IsParticipant(conns[c].user, t.room)
                          THEN 1 ELSE 0]_vars
\* C28: every claim in the typing map has an expiry pending for its key that
\* is due no later than 3000 ms after the claim's start, and no claim is older
\* than 3000 ms.
C28_ClaimHasPendingExpiry ==
  \A t \in typingUsers :
    /\ \E x \in BagToSet(timers) :
         x.userId = t.userId /\ x.chatId = t.chatId /\ x.due <= t.timestamp + TypingTimeout
    /\ now <= t.timestamp + TypingTimeout

C28_Witness ==
  /\ last.op = "typingStart"
  /\ messages[1].saved
  /\ \E t \in typingUsers : \E x \in BagToSet(timers) :
       x.userId = t.userId /\ x.chatId = t.chatId /\ x.due < t.timestamp + TypingTimeout
\* C31: a frame that parses and whose type is not a recognized one writes no
\* frame to anybody and changes neither the connections, the registry, the
\* typing map and its timers, the store, nor the pending fanouts.
C31_UnknownTypeIgnored ==
  [][\A c \in Conns, f \in InFrames :
       (HandleMessage(c, f) /\ f.parses /\ f.type \notin Recognized) =>
         /\ delivered' = <<>>
         /\ conns' = conns /\ connectedUsers' = connectedUsers
         /\ typingUsers' = typingUsers /\ timers' = timers
         /\ messages' = messages /\ lastMessage' = lastMessage /\ isOnline' = isOnline
         /\ tasks' = tasks]_vars

C31_Witness ==
  /\ last.op = "handleMessage"
  /\ delivered = <<>>
  /\ typingUsers # {}
  /\ tasks # EmptyBag

\* C32: a fanout writes frames to open sockets only; a target whose registered
\* socket is not open, or that has no registry entry, gets nothing, and the
\* step changes nothing but the fanout it completes: connections, registry,
\* presence, typing map and store stay as they are.
Dropped(u) == connectedUsers[u] = NoConn \/ ~Live(connectedUsers[u])

C32_SendOnlyToOpen ==
  [][\A t \in BagToSet(tasks) : (ChatDone(t) \/ UserChatsDone(t)) =>
       /\ \A i \in DOMAIN delivered' : Live(delivered'[i].to) /\ Registered(delivered'[i].to)
       /\ \A u \in Users : Dropped(u) =>
            \A i \in DOMAIN delivered' : conns[delivered'[i].to].user # u
       /\ ChatDone(t) => \A u \in Targets(t) :
            ~Dropped(u) => CountTo(connectedUsers[u])' = 1
       /\ conns' = conns /\ connectedUsers' = connectedUsers /\ isOnline' = isOnline
       /\ typingUsers' = typingUsers /\ messages' = messages
       /\ tasks' = Resume(t)]_vars

C32_Witness ==
  /\ last.op = "chatDone"
  /\ delivered = <<>>
  /\ \E u \in Users \ {last.user} :
       /\ IsParticipant(u, last.room)
       /\ connectedUsers[u] # NoConn /\ conns[connectedUsers[u]].sock = "closing"

\* C35: the disconnect handling of a connection of U that has been replaced in
\* the registry by a live connection of U clears no typing claim, and neither
\* marks U offline nor starts a user_offline fanout.
Replaced(c) ==
  /\ conns[c].user \in Users
  /\ connectedUsers[conns[c].user] \notin {c, NoConn}
  /\ Live(connectedUsers[conns[c].user])

C35_StaleDisconnectIsSilent ==
  [][\A c \in Conns :
       /\ (CloseEvent(c) /\ conns[c].st = "ready" /\ Replaced(c)) =>
            typingUsers' = typingUsers /\ conns'[c].disc # "updating"
       /\ (UpdateDone(c) /\ Replaced(c)) =>
            isOnline' = isOnline /\ tasks' = tasks]_vars

\* C37: no message has two receipts of one user.
C37_OneReceiptPerUser ==
  \A m \in MsgIds, u \in Users : Receipts(m, u) <= 1
\* C33: a connection of U that is open while the registry holds a newer open
\* connection of U is eventually not open any more.
C33_ReplacedConnectionClosed ==
  \A c \in Conns : (Replaced(c) /\ Live(c) /\ conns[c].st = "ready") ~> ~Live(c)

\* C34: a registry entry that points at a connection whose socket is no longer
\* open is eventually removed or given to another connection.
C34_EntryReclaimed ==
  \A c \in Conns : (Registered(c) /\ conns[c].sock = "closed") ~> ~Registered(c)
\* C36: a typing_start of (u1, r1) written to the connection of member u2,
\* with every expiry of the run due within its horizon, is eventually followed
\* by a typing_stop of (u1, r1) written to that connection.
C36_TypingNeverStuck ==
  (/\ \E i \in DOMAIN delivered : delivered[i] = Frame(2, "typing_start", "u1", "r1")
   /\ \A x \in BagToSet(timers) : x.due <= Horizon)
    ~> (\E i \in DOMAIN delivered : delivered[i] = Frame(2, "typing_stop", "u1", "r1"))

\* ====================================================== client: connection
\* services/websocket.ts (WebSocketService) and contexts/WebSocketContext.tsx
\* (WebSocketProvider).  A socket is a record of `socks` from `new WebSocket`
\* until its close event has run; `cur` marks the one this.ws points at,
\* `awaited` that setupConnection awaits the promise of the connect() call
\* that made it.  The browser runs every event and every timer callback to
\* completion; the timers fire in any order.  The service hands only frames
\* of the server to the handlers of on(), and the server sends no frame of
\* type 'disconnect': the provider's 'disconnect' handler never runs.
ClientOp(op) == Op(op, NoConn)

NoCurrent(b) == BagOfAll(LAMBDA s : [s EXCEPT !.cur = FALSE], b)

\* connect(token): new WebSocket(url), stored in this.ws
Connect(b, awaited) ==
  NoCurrent(b) (+) SetToBag({[st |-> "connecting", cur |-> TRUE, awaited |-> awaited]})

\* ws.onclose
OnCloseHandler(svc) ==
  IF ~svc.isManualClose /\ svc.reconnectAttempts < maxReconnectAttempts
  THEN [svc EXCEPT !.timers = @ + 1]
  ELSE svc

\* the catch of setupConnection; isAuthenticated is the value of the render
\* in which the callback was made, and the callback went past its first guard
SetupConnectionCatch(p) ==
  [p EXCEPT !.connectionRef = FALSE,
            !.timers = IF p.reconnectAttempts < maxReconnectAttempts THEN @ + 1 ELSE @]

\* clearTimeout(reconnectTimeoutRef.current): the ref holds the latest timer
ClearTimeout(p) == [p EXCEPT !.timers = IF @ > 0 THEN @ - 1 ELSE 0]

\* disconnect(): this.ws.close() puts the socket in CLOSING (a socket still
\* CONNECTING is failed); its close event comes later
Closing(s) ==
  IF ~s.cur THEN s
  ELSE [s EXCEPT !.cur = FALSE,
                 !.st = IF s.st = "connecting" THEN "aborting"
                        ELSE IF s.st = "open" THEN "closing" ELSE @]

Disconnect(b) == BagOfAll(Closing, b)

ClientStep(op) ==
  /\ delivered' = <<>>
  /\ last' = ClientOp(op)
  /\ UNCHANGED <<hubVars, hook>>

\* the auth effect after a login: setupConnection()
Login ==
  /\ ~provider.isAuthenticated
  /\ BagCardinality(socks) < MaxSockets
  /\ IF provider.connectionRef
     THEN /\ provider' = [provider EXCEPT !.isAuthenticated = TRUE]
          /\ UNCHANGED <<socks, audit>>
     ELSE /\ provider' = [provider EXCEPT !.isAuthenticated = TRUE, !.connectionRef = TRUE]
          /\ socks' = Connect(socks, TRUE)
          /\ audit' = [tries |-> 0, lost |-> FALSE, stopped |-> FALSE]
  /\ UNCHANGED service
  /\ ClientStep("login")

\* the auth effect after a logout: its cleanup, then the else-if branch
Logout ==
  /\ provider.isAuthenticated
  /\ IF provider.connectionRef
     THEN /\ provider' = [ClearTimeout(provider) EXCEPT !.isAuthenticated = FALSE,
                            !.connectionRef = FALSE, !.reconnectAttempts = 0]
          /\ service' = [service EXCEPT !.isManualClose = TRUE]
          /\ socks' = Disconnect(socks)
          /\ audit' = [audit EXCEPT !.stopped = TRUE, !.lost = FALSE]
     ELSE /\ provider' = [ClearTimeout(provider) EXCEPT !.isAuthenticated = FALSE]
          /\ audit' = [audit EXCEPT !.lost = FALSE]
          /\ UNCHANGED <<service, socks>>
  /\ ClientStep("logout")

\* reconnect(), the manual one
Reconnect ==
  /\ provider.isAuthenticated
  /\ BagCardinality(socks) < MaxSockets
  /\ provider' = [ClearTimeout(provider) EXCEPT !.connectionRef = TRUE,
                                                !.reconnectAttempts = 0]
  /\ service' = IF provider.connectionRef
                THEN [service EXCEPT !.isManualClose = TRUE] ELSE service
  /\ socks' = Connect(IF provider.connectionRef THEN Disconnect(socks) ELSE socks, TRUE)
  /\ audit' = [tries |-> 0, lost |-> FALSE, stopped |-> FALSE]
  /\ ClientStep("reconnect")

\* ws.onopen, and the rest of setupConnection when it awaits this socket
OnOpen(s) ==
  /\ BagIn(s, socks) /\ s.st = "connecting"
  /\ socks' = (socks (-) SetToBag({s}))
                (+) SetToBag({[s EXCEPT !.st = "open", !.awaited = FALSE]})
  /\ service' = [service EXCEPT !.reconnectAttempts = 0, !.isManualClose = FALSE]
  /\ provider' = IF s.awaited THEN [provider EXCEPT !.reconnectAttempts = 0]
                 ELSE provider
  /\ audit' = [audit EXCEPT !.tries = 0, !.lost = FALSE]
  /\ ClientStep("onopen")

\* the connection could not be made (or was closed before it was made):
\* ws.onerror rejects the promise, then ws.onclose
OnError(s) ==
  /\ BagIn(s, socks) /\ s.st \in {"connecting", "aborting"}
  /\ service.timers < MaxTimers /\ provider.timers < MaxTimers
  /\ socks' = socks (-) SetToBag({s})
  /\ provider' = IF s.awaited THEN SetupConnectionCatch(provider) ELSE provider
  /\ service' = OnCloseHandler(service)
  /\ UNCHANGED audit
  /\ ClientStep("onerror")

\* an open connection ends, lost or closed by disconnect(): ws.onclose
OnClose(s) ==
  /\ BagIn(s, socks) /\ s.st \in {"open", "closing"}
  /\ service.timers < MaxTimers
  /\ socks' = socks (-) SetToBag({s})
  /\ service' = OnCloseHandler(service)
  /\ audit' = IF s.st = "open" THEN [audit EXCEPT !.lost = TRUE] ELSE audit
  /\ UNCHANGED provider
  /\ ClientStep("onclose")

\* the setTimeout callback of ws.onclose
ReconnectTimer ==
  /\ service.timers > 0
  /\ BagCardinality(socks) < MaxSockets
  /\ audit.tries <= maxReconnectAttempts
  /\ service' = [service EXCEPT !.timers = @ - 1, !.reconnectAttempts = @ + 1]
  /\ socks' = Connect(socks, FALSE)
  /\ audit' = [audit EXCEPT !.tries = @ + 1]
  /\ UNCHANGED provider
  /\ ClientStep("reconnectTimer")

\* the setTimeout callback of setupConnection
ProviderTimer ==
  /\ provider.timers > 0
  /\ BagCardinality(socks) < MaxSockets
  /\ audit.tries <= maxReconnectAttempts
  /\ IF provider.connectionRef
     THEN /\ provider' = [provider EXCEPT !.timers = @ - 1, !.reconnectAttempts = @ + 1]
          /\ UNCHANGED <<socks, audit>>
     ELSE /\ provider' = [provider EXCEPT !.timers = @ - 1, !.reconnectAttempts = @ + 1,
                                          !.connectionRef = TRUE]
          /\ socks' = Connect(socks, TRUE)
          /\ audit' = [audit EXCEPT !.tries = @ + 1, !.stopped = FALSE]
  /\ UNCHANGED service
  /\ ClientStep("providerTimer")

NextClient ==
  \/ Login \/ Logout \/ Reconnect
  \/ \E s \in BagToSet(socks) : OnOpen(s)
  \/ \E s \in BagToSet(socks) : OnError(s)
  \/ \E s \in BagToSet(socks) : OnClose(s)
  \/ ReconnectTimer
  \/ ProviderTimer

SpecClient == Init /\ [][NextClient]_vars

\* C38: while disconnect() has been called and the application has not
\* called connect() since, no reconnect timer of the service opens a socket.
C38_NoConnectAfterDisconnect ==
  [][ReconnectTimer => ~audit.stopped]_vars

\* C39: after the loss of an open connection, and until a connection opens,
\* the timers of the service and of the provider together make at most
\* maxReconnectAttempts connection attempts.
C39_AttemptsBounded ==
  audit.lost => audit.tries <= maxReconnectAttempts

\* ======================================================== client: useChat
\* hooks/useChat.ts.  `sending` holds the chat of every apiService.sendMessage
\* not yet answered, `loading` the loadMessages call not yet answered (the
\* call is refused while isLoading).  The server chooses the id of a message
\* and the content of a page; a page is in chronological order, that is in
\* the order of the ids.  `pushed` remembers the ids whose new_message frame
\* the handler has seen for the open chat; `last` keeps the chat and the id
\* of an answered send only.
Count(list, m) == Cardinality({i \in DOMAIN list : list[i] = m})

RECURSIVE Ascending(_)
Ascending(S) ==
  IF S = {} THEN <<>>
  ELSE LET m == CHOOSE x \in S : \A y \in S : x <= y
       IN  <<m>> \o Ascending(S \ {m})

Pages == {Ascending(S) : S \in SUBSET MsgIds}

\* the updater of setMessages in sendMessage
AddFromResponse(prev, m) ==
  IF \E i \in DOMAIN prev : prev[i] = m THEN prev ELSE Append(prev, m)

AddFromPushNoCheck(prev, m) == Append(prev, m)

\* the updater of setMessages in the new_message handler
AddFromPush(prev, m) ==
  IF \E i \in DOMAIN prev : prev[i] = m THEN prev ELSE Append(prev, m)

HookStep(op, r, m) ==
  /\ delivered' = <<>>
  /\ last' = [ClientOp(op) EXCEPT !.room = r, !.msg = m]
  /\ UNCHANGED <<hubVars, socks, service, provider, audit>>

Connected == \E s \in BagToSet(socks) : s.st = "open"

\* loadMessages up to its await
LoadMessages(h, r, reset) ==
  IF h.loading # {} \/ ~provider.isAuthenticated THEN h
  ELSE [h EXCEPT !.loading = {[room |-> r, reset |-> reset]}]

SetActiveChat(r) ==
  /\ provider.isAuthenticated
  /\ r # hook.currentChat
  /\ hook' = IF r = NoRoom
             THEN [hook EXCEPT !.currentChat = r, !.messages = <<>>, !.hasMore = TRUE,
                               !.pushed = {}]
             ELSE LoadMessages([hook EXCEPT !.currentChat = r, !.pushed = {}], r, TRUE)
  /\ HookStep("setActiveChat", NoRoom, NoMsg)

LoadMoreMessages ==
  /\ provider.isAuthenticated
  /\ hook.currentChat # NoRoom /\ hook.hasMore /\ hook.loading = {}
  /\ hook' = LoadMessages(hook, hook.currentChat, FALSE)
  /\ HookStep("loadMoreMessages", NoRoom, NoMsg)

\* the answer to apiService.getMessages
LoadDone(q, page, more) ==
  /\ q \in hook.loading
  /\ Len(page) + Len(hook.messages) <= MaxMsgs + 1
  /\ hook' = [hook EXCEPT !.loading = {},
                          !.messages = IF q.reset THEN page ELSE page \o @,
                          !.hasMore = more]
  /\ HookStep("loadDone", NoRoom, NoMsg)

\* sendMessage up to its await; ChatWindow.handleSendMessage, its only
\* caller, returns while isSending and sends to the chat it shows
SendChat(r) ==
  /\ provider.isAuthenticated
  /\ r = hook.currentChat /\ r # NoRoom
  /\ hook.sending = EmptyBag
  /\ hook' = [hook EXCEPT !.sending = @ (+) SetToBag({r})]
  /\ HookStep("sendMessage", NoRoom, NoMsg)

\* the answer to apiService.sendMessage: the message, with the id m
SendResponse(r, m) ==
  /\ BagIn(r, hook.sending)
  /\ hook' = [hook EXCEPT !.sending = @ (-) SetToBag({r}),
                          !.messages = IF hook.currentChat = r
                                       THEN AddFromResponse(@, m) ELSE @]
  /\ HookStep("sendResponse", r, m)

\* the request fails: the catch of sendMessage
SendRejected(r) ==
  /\ BagIn(r, hook.sending)
  /\ hook' = [hook EXCEPT !.sending = @ (-) SetToBag({r})]
  /\ HookStep("sendRejected", NoRoom, NoMsg)

\* a new_message frame reaches the handler the hook registered
NewMessage(r, m) ==
  /\ provider.isAuthenticated /\ Connected
  /\ hook' = IF hook.currentChat = r
             THEN [hook EXCEPT !.messages = AddFromPush(@, m), !.pushed = @ \cup {m}]
             ELSE hook
  /\ HookStep("newMessage", NoRoom, NoMsg)

\* the user is logged in and the connection is open
InitChatOpen ==
  /\ HubInit
  /\ socks = SetToBag({[st |-> "open", cur |-> TRUE, awaited |-> FALSE]})
  /\ service = [reconnectAttempts |-> 0, isManualClose |-> FALSE, timers |-> 0]
  /\ provider = [connectionRef |-> TRUE, reconnectAttempts |-> 0, timers |-> 0,
                 isAuthenticated |-> TRUE]
  /\ audit = [tries |-> 0, lost |-> FALSE, stopped |-> FALSE]
  /\ hook = [currentChat |-> NoRoom, messages |-> <<>>, hasMore |-> TRUE,
             sending |-> EmptyBag, loading |-> {}, pushed |-> {}]

NextChat ==
  \/ \E r \in Rooms \cup {NoRoom} : SetActiveChat(r)
  \/ LoadMoreMessages
  \/ \E q \in hook.loading, page \in Pages, more \in BOOLEAN : LoadDone(q, page, more)
  \/ \E r \in Rooms : SendChat(r)
  \/ \E r \in Rooms, m \in MsgIds : SendResponse(r, m)
  \/ \E r \in Rooms : SendRejected(r)
  \/ \E r \in Rooms, m \in MsgIds : NewMessage(r, m)

SpecChat == InitChatOpen /\ [][NextChat]_vars

====
